---- MODULE Spec2Model ----
(***************************************************************************)
(* A model of the floydian newsletter aggregator:                          *)
(*   - the snapshot store (database_management.py),                        *)
(*   - the site parsers (parsers.py),                                      *)
(*   - the predicate chain (postproc.py),                                  *)
(*   - one run of the mailer script (mailer.py).                           *)
(***************************************************************************)
EXTENDS Bags, FiniteSets, Integers, Sequences, TLC

(***************************************************************************)
(* Bounds.                                                                 *)
(***************************************************************************)
\* number of distinct post links a store call may mention
NumLinks == 2
\* longest post list handed to one update_latest_post_urls call
MaxData == 2
\* number of update_latest_post_urls calls made on the initial store
MaxCalls == 1
\* most article elements on one downloaded page
MaxArticles == 2
\* longest newsfeed handed to filter_feed
MaxFeed == 2
\* most predicates handed to filter_feed
MaxPreds == 2
\* most article elements on a page downloaded during a run of the script
MaxRunArticles == 1
\* most paragraphs of a text handed to translate
MaxParagraphs == 2

(***************************************************************************)
(* parsers.py: the configured parsers.                                     *)
(***************************************************************************)
AFG == "A Fleeting Glimpse"
BD == "Brain Damage"
PS == "Pulse & Spirit"
FS == "Floydian Slip"

\* mailer.py PARSERS, in list order
PARSERS == << AFG, BD, FS, PS >>

ParserNames == {PARSERS[i] : i \in 1..Len(PARSERS)}

\* SiteParser.mainpage, set by each subclass constructor
mainpage == [p \in ParserNames |->
               CASE p = AFG -> "http://www.pinkfloydz.com/"
                 [] p = BD -> "http://www.brain-damage.co.uk/index.php"
                 [] p = PS -> "http://www.pulse-and-spirit.com/"
                 [] p = FS -> "http://www.floydianslip.com/news/"]

\* SiteParser.lang
lang == [p \in ParserNames |-> IF p = PS THEN "de" ELSE "en"]

(***************************************************************************)
(* State.                                                                  *)
(***************************************************************************)
VARIABLES
  Source,        \* table Source: set of [name, newsfeed]
  SiteSnapshot,  \* table SiteSnapshot: bag of [url, timestamp, source, is_latest]
  calls,         \* number of update_latest_post_urls calls made so far
  lastCall,      \* arguments and pre-state of the last completed call
  pParser,       \* the parser whose news property is read
  pResp,         \* what requests.get(self.mainpage) produces
  pResult,       \* outcome of the news property, once evaluated
  fFeed,         \* the newsfeed handed to filter_feed
  fPreds,        \* the predicates handed to filter_feed
  fOut,          \* what filter_feed returned, once called
  SETTINGS,      \* cfg.json: whether it has a "translate-key" entry
  pc,            \* position of the mailer script
  parserIdx,     \* index into PARSERS of the loop of get_latest_news
  runTs,         \* get_latest_news: ts
  breakpoints,   \* get_latest_news: breakpoints
  newsfeed,      \* get_latest_news: newsfeed
  translation_used, \* get_latest_news: translation_used
  stamps,        \* get_latest_news: stamps
  server_connection, \* SMTPMailer.server_connection: "none", "open" or "closed"
  sessions,      \* number of SMTP_SSL connections opened
  mailtoCalls,   \* number of mailto calls
  sendmail,      \* outcome of server_connection.sendmail: "not called", "ok", "failed"
  updateCalls,   \* number of update_latest_post_urls calls the script made
  pending,       \* exception raised inside the with block, not yet propagated
  exc,           \* exception that ended the run
  store0,        \* the store when the run started
  tSettings,     \* SETTINGS as Converters.translate sees it
  tText,         \* the paragraphs handed to translate
  tOutcome,      \* what the translation API does when it is called
  tResult,       \* outcome of Converters.translate, once called
  tCaller,       \* outcome of the translation loop of get_latest_news, once run
  builtOn,       \* the store when SentBefore was constructed
  fAgain         \* outcome of filtering the filtered feed once more

storeVars == << Source, SiteSnapshot, calls, lastCall >>

parserVars == << pParser, pResp, pResult >>

filterVars == << fFeed, fPreds, fOut >>

runVars == << SETTINGS, pc, parserIdx, runTs, breakpoints, newsfeed, translation_used, stamps,
             server_connection, sessions, mailtoCalls, sendmail, updateCalls, pending,
             exc, store0 >>

translateVars == << tSettings, tText, tOutcome, tResult, tCaller >>

sentVars == << builtOn, fAgain >>

vars == << Source, SiteSnapshot, calls, lastCall, pParser, pResp, pResult,
           fFeed, fPreds, fOut,
           SETTINGS, pc, parserIdx, runTs, breakpoints, newsfeed, translation_used, stamps,
           server_connection, sessions, mailtoCalls, sendmail, updateCalls, pending,
           exc, store0,
           tSettings, tText, tOutcome, tResult, tCaller,
           builtOn, fAgain >>

(***************************************************************************)
(* database_management.py                                                  *)
(***************************************************************************)
\* the links the store calls draw from
StoreUrls == 1..NumLinks

\* the parsers whose posts the store calls mention
StoreParsers == {AFG, BD}

\* the fields of a RawNews that update_latest_post_urls reads
StorePosts == [parser : StoreParsers, link : StoreUrls]

\* the lists over S of length at most n
SeqsUpTo(S, n) == UNION {[1..m -> S] : m \in 0..n}

\* the post lists handed to update_latest_post_urls
StoreData == SeqsUpTo(StorePosts, MaxData)

\* Source(name=src_name, newsfeed=src_mp)
SourceRow(src_name, src_mp) == [name |-> src_name, newsfeed |-> src_mp]

\* Source.exists(name=src_name, newsfeed=src_mp)
SourceExists(tbl, src_name, src_mp) == SourceRow(src_name, src_mp) \in tbl

\* the select forgets its condition and returns every row
OldLatestPosts_everyRow(rows, source) == rows

\* the select finds nothing
OldLatestPosts_noRow(rows, source) == EmptyBag

\* orm.select(p for p in SiteSnapshot if p.source == source)
OldLatestPosts(rows, source) ==
  [r \in {x \in DOMAIN rows : x.source = source} |-> rows[r]]

\* the old rows are not deleted
DeleteAll_keep(rows, old) == rows

\* for p in old_latest_posts: p.delete()
DeleteAll(rows, old) == rows (-) old

\* every post is treated as the first of its source
NotSeenYet_always(key, seen) == TRUE

\* (src_name, src_mp) not in sources
NotSeenYet(key, seen) == key \notin seen

\* SiteSnapshot(source=source, is_latest=True, timestamp=ts, url=text_link)
NewSnapshot(source, ts, text_link) ==
  [url |-> text_link, timestamp |-> ts, source |-> source, is_latest |-> TRUE]

\* the loop body of update_latest_post_urls, from post i of data onwards;
\* st is the pair of tables, seen the keys of the local dict `sources'
RECURSIVE UpdateLoop(_, _, _, _, _)
UpdateLoop(ts, data, i, st, seen) ==
  IF i > Len(data) THEN st
  ELSE
    LET post == data[i]
        src_name == post.parser
        src_mp == mainpage[post.parser]
        text_link == post.link
        key == << src_name, src_mp >>
        source == SourceRow(src_name, src_mp)
        first == NotSeenYet(key, seen)
        tbl == IF first /\ ~SourceExists(st.Source, src_name, src_mp)
               THEN st.Source \cup {source}
               ELSE st.Source
        kept == IF first
                THEN DeleteAll(st.SiteSnapshot, OldLatestPosts(st.SiteSnapshot, source))
                ELSE st.SiteSnapshot
        added == kept (+) SetToBag({NewSnapshot(source, ts, text_link)})
    IN UpdateLoop(ts, data, i + 1,
                  [Source |-> tbl, SiteSnapshot |-> added],
                  seen \cup {key})

\* update_latest_post_urls(ts, data) as a function of the two tables
update_latest_post_urls(ts, data, st) == UpdateLoop(ts, data, 1, st, {})

\* get_latest_post_urls()
get_latest_post_urls(rows) == {r.url : r \in {x \in BagToSet(rows) : x.is_latest}}

EmptyStore == [Source |-> {}, SiteSnapshot |-> EmptyBag]

\* datetime.now() at the call that follows n earlier calls
Now(n) == n + 1

\* the stores left by an earlier call on the empty store, made before the
\* first call (at time 0) or within the same clock reading (at time 1)
SeedStores ==
  {EmptyStore,
   update_latest_post_urls(1, << [parser |-> AFG, link |-> 2] >>, EmptyStore)}
  \cup {update_latest_post_urls(0, data, EmptyStore) :
          data \in {<< [parser |-> AFG, link |-> 1] >>,
                    << [parser |-> BD, link |-> 2] >>,
                    << [parser |-> AFG, link |-> 1], [parser |-> BD, link |-> 2] >>,
                    << [parser |-> AFG, link |-> 2], [parser |-> BD, link |-> 1] >>}}

(***************************************************************************)
(* parsers.py                                                              *)
(***************************************************************************)
NoException == "none"

\* header_link["href"] when the anchor has no href attribute
NoHref == -1

\* header_link["href"] when the attribute is the empty string
EmptyHref == 0

\* the href values of a bookmark anchor: no attribute, empty, or a URL
Hrefs == {NoHref, EmptyHref} \cup (1..NumLinks)

\* an article element of a page, by the parts the extraction rules look at:
\*   anchor  the header link element is present
\*   href    its href attribute
\*   title   its text is "empty" or "text"
\*   date    the date element is "absent", "malformed" or "valid"
\*   body    the text element is present
Articles ==
  [anchor : {FALSE}, href : {NoHref}, title : {"empty"},
   date : {"absent", "malformed", "valid"}, body : BOOLEAN]
  \cup
  [anchor : {TRUE}, href : Hrefs, title : {"empty", "text"},
   date : {"absent", "malformed", "valid"}, body : BOOLEAN]

\* resp.text: empty, or a document with or without the structural container
\* and at most n article elements
EmptyHtml == [empty |-> TRUE, container |-> FALSE, articles |-> << >>]

Htmls(n) ==
  {EmptyHtml, [empty |-> FALSE, container |-> FALSE, articles |-> << >>]}
  \cup [empty : {FALSE}, container : {TRUE}, articles : SeqsUpTo(Articles, n)]

\* requests.get(self.mainpage) raises, or returns a response without a page
FailedResponses ==
  {[transport |-> "error", status_code |-> 0, content_type |-> "missing", text |-> EmptyHtml],
   [transport |-> "ok", status_code |-> 404, content_type |-> "text/html", text |-> EmptyHtml],
   [transport |-> "ok", status_code |-> 200, content_type |-> "missing", text |-> EmptyHtml],
   [transport |-> "ok", status_code |-> 200, content_type |-> "application/json", text |-> EmptyHtml]}

\* requests.get(self.mainpage): it raises, or it returns a response whose
\* page has at most n article elements
Responses(n) ==
  FailedResponses
  \cup [transport : {"ok"}, status_code : {200}, content_type : {"text/html"},
        text : Htmls(n)]

\* SiteParser.download_page: the exception raised, and self.html
download_page(resp) ==
  IF resp.transport = "error"
    THEN [exc |-> "ConnectionError", html |-> EmptyHtml]
  ELSE IF resp.status_code # 200
    THEN [exc |-> "DownloadFailedError", html |-> EmptyHtml]
  ELSE IF resp.content_type = "missing"
    THEN [exc |-> "KeyError", html |-> EmptyHtml]
  ELSE IF resp.content_type # "text/html"
    THEN [exc |-> "DownloadFailedError", html |-> EmptyHtml]
  ELSE [exc |-> NoException, html |-> resp.text]

\* to_paragraphs(text) for the text of a body element, None when it is absent
to_paragraphs(body) == IF body THEN << "src" >> ELSE << >>

\* News(parser, name, date, link, text, tagging)
News(parser, name, date, link, text) ==
  [parser |-> parser, name |-> name, date |-> date, link |-> link, text |-> text]

Skip == [kind |-> "skip"]
Raise(e) == [kind |-> "raise", exc |-> e]
Emit(n) == [kind |-> "emit", news |-> n]

\* `not header or not link'
NoHeaderOrLink(a) == ~a.anchor \/ a.title = "empty" \/ a.href = EmptyHref

\* the date handed to News: None when the element is absent
ParsedDate(a) == IF a.date = "valid" THEN "valid" ELSE "None"

\* AFGParser.to_news, one article
AFGArticle(a) ==
  IF a.date = "malformed" THEN Raise("ValueError")
  ELSE IF a.anchor /\ a.href = NoHref THEN Raise("KeyError")
  ELSE IF NoHeaderOrLink(a) THEN Skip
  ELSE Emit(News(AFG, a.title, ParsedDate(a), a.href, to_paragraphs(a.body)))

\* BrainDamageParser.to_news, one pair of header table and text table
BrainDamageArticle(a) ==
  IF a.anchor /\ a.href = NoHref THEN Raise("KeyError")
  ELSE IF NoHeaderOrLink(a) THEN Skip
  ELSE IF a.date = "malformed" THEN Raise("ValueError")
  ELSE Emit(News(BD, a.title, ParsedDate(a), a.href, to_paragraphs(a.body)))

\* PulseAndSpiritParser.to_news, one article
PulseAndSpiritArticle(a) ==
  IF a.date = "malformed" THEN Raise("ValueError")
  ELSE IF a.anchor /\ a.href = NoHref THEN Raise("KeyError")
  ELSE IF NoHeaderOrLink(a) THEN Skip
  ELSE Emit(News(PS, a.title, ParsedDate(a), a.href, to_paragraphs(a.body)))

\* FloydianSlipParser.to_news, one article
FloydianSlipArticle(a) ==
  IF a.date = "absent" THEN Skip
  ELSE IF a.anchor /\ a.href = NoHref THEN Raise("KeyError")
  ELSE IF NoHeaderOrLink(a) THEN Skip
  ELSE IF ~a.body THEN Raise("AttributeError")
  ELSE IF a.date = "malformed" THEN Raise("ValueError")
  ELSE Emit(News(FS, a.title, ParsedDate(a), a.href, to_paragraphs(a.body)))

\* the extraction rule of parser p
Article(p, a) ==
  CASE p = AFG -> AFGArticle(a)
    [] p = BD -> BrainDamageArticle(a)
    [] p = PS -> PulseAndSpiritArticle(a)
    [] p = FS -> FloydianSlipArticle(a)

\* the loop `for article in articles' of to_news, from article i onwards
RECURSIVE ArticleLoop(_, _, _, _)
ArticleLoop(p, articles, i, parsed) ==
  IF i > Len(articles) THEN [exc |-> NoException, news |-> parsed]
  ELSE LET r == Article(p, articles[i])
       IN CASE r.kind = "raise" -> [exc |-> r.exc, news |-> << >>]
            [] r.kind = "skip" -> ArticleLoop(p, articles, i + 1, parsed)
            [] r.kind = "emit" -> ArticleLoop(p, articles, i + 1, Append(parsed, r.news))

\* to_news of parser p on self.html
to_news(p, html) ==
  IF html.container
    THEN ArticleLoop(p, html.articles, 1, << >>)
    ELSE [exc |-> NoException, news |-> << >>]

\* the property SiteParser.news
news(p, resp) ==
  LET d == download_page(resp)
  IN IF d.exc = "DownloadFailedError" THEN [exc |-> NoException, news |-> << >>]
     ELSE IF d.exc # NoException THEN [exc |-> d.exc, news |-> << >>]
     ELSE IF d.html.empty THEN [exc |-> NoException, news |-> << >>]
     ELSE to_news(p, d.html)

(***************************************************************************)
(* postproc.py                                                             *)
(***************************************************************************)
\* the links of the posts handed to the predicates
FeedUrls == 1..NumLinks

\* the parsers of the posts handed to the predicates
FeedParsers == {FS, BD}

\* the fields of a RawNews that the predicates read
FeedPosts == [parser : FeedParsers, link : FeedUrls]

\* IsPreviewOrSonglist.apply_to
apply_to == {FS}

\* self.is_preview.search(data.link): the links with an even number stand for
\* the URLs .../news/<d>/<d>/floydian-slip-(preview|songlist)-<d>/
is_preview(link) == link % 2 = 0

\* IsPreviewOrSonglist()
IsPreviewOrSonglist == [kind |-> "IsPreviewOrSonglist", sent_before |-> {}]

\* a SentBefore whose constructor read sent_before from the store
SentBefore(sent_before) == [kind |-> "SentBefore", sent_before |-> sent_before]

\* IsPreviewOrSonglist.__call__
IsPreviewOrSonglistCall(data) ==
  IF data.parser \in apply_to /\ is_preview(data.link) THEN FALSE ELSE TRUE

\* the store is read again at every call
SentBeforeCall_live(self, data) == data.link \notin get_latest_post_urls(SiteSnapshot)

\* SentBefore.__call__
SentBeforeCall(self, data) == data.link \notin self.sent_before

\* i(post) for a predicate i
Call(i, post) ==
  IF i.kind = "IsPreviewOrSonglist"
    THEN IsPreviewOrSonglistCall(post)
    ELSE SentBeforeCall(i, post)

\* the built-in is replaced by any()
all_any(bools) == \E k \in 1..Len(bools) : bools[k]

\* all([...]) of a list of booleans
all(bools) == \A k \in 1..Len(bools) : bools[k]

\* the list comprehension of filter_feed, from post n of newsfeed onwards
RECURSIVE FilterLoop(_, _, _, _)
FilterLoop(feed, predicates, n, out) ==
  IF n > Len(feed) THEN out
  ELSE LET post == feed[n]
           admitted == all([k \in 1..Len(predicates) |-> Call(predicates[k], post)])
       IN FilterLoop(feed, predicates, n + 1,
                     IF admitted THEN Append(out, post) ELSE out)

\* filter_feed(newsfeed, *predicates)
filter_feed(feed, predicates) == FilterLoop(feed, predicates, 1, << >>)

\* the predicates a chain is built from
Predicates == {IsPreviewOrSonglist} \cup {SentBefore(S) : S \in SUBSET FeedUrls}

\* "translate-key" in SETTINGS
HasTranslateKey(settings) == settings.translate_key

\* the codes the translation API answers with
ApiCodes == {200, 401, 404, 422}

\* what the API call does: requests.get raises, or the body carries a code
ApiAnswers ==
  {[transport |-> "error", code |-> 0]} \cup [transport : {"ok"}, code : ApiCodes]

\* response_json["text"]: the translations, aligned with the input
Translated(text) == [j \in 1..Len(text) |-> "en"]

\* Converters.translate(text, from_lang, to_lang): the exception raised,
\* whether None is returned, the list returned, and the API calls made
ConvertersTranslate(text, settings, answer) ==
  IF ~HasTranslateKey(settings)
    THEN [exc |-> NoException, none |-> TRUE, text |-> << >>, requests |-> 0]
  ELSE IF answer.transport = "error"
    THEN [exc |-> "ConnectionError", none |-> TRUE, text |-> << >>, requests |-> 1]
  ELSE IF answer.code # 200
    THEN [exc |-> NoException, none |-> TRUE, text |-> << >>, requests |-> 1]
  ELSE [exc |-> NoException, none |-> FALSE, text |-> Translated(text), requests |-> 1]

(***************************************************************************)
(* mailer.py                                                               *)
(***************************************************************************)
\* what the translation API call produces: a body with code 200, a body
\* with another code, or an exception of requests.get
ApiOutcomes == {"200", "other", "error"}

\* translate(text, from_lang, to_lang) under one API outcome: the exception
\* raised, the returned text and the returned flag
translate(text, settings, outcome) ==
  IF ~settings.translate_key
    THEN [exc |-> "KeyError", text |-> text, ok |-> FALSE]
  ELSE IF outcome = "error"
    THEN [exc |-> "ConnectionError", text |-> text, ok |-> FALSE]
  ELSE IF outcome = "200"
    THEN [exc |-> NoException, text |-> [j \in 1..Len(text) |-> "en"], ok |-> TRUE]
  ELSE [exc |-> NoException, text |-> text, ok |-> FALSE]

\* the loop `for n in news' of get_latest_news, from post i onwards;
\* outcomes[i] is the API outcome of the call made for post i
RECURSIVE TranslateLoop(_, _, _, _, _)
TranslateLoop(nws, settings, outcomes, i, used) ==
  IF i > Len(nws) THEN [exc |-> NoException, news |-> nws, used |-> used]
  ELSE IF nws[i].text = << >> THEN TranslateLoop(nws, settings, outcomes, i + 1, used)
  ELSE LET t == translate(nws[i].text, settings, outcomes[i])
       IN IF t.exc # NoException
            THEN [exc |-> t.exc, news |-> nws, used |-> used]
          ELSE IF t.ok
            THEN TranslateLoop([nws EXCEPT ![i].text = t.text], settings, outcomes,
                               i + 1, TRUE)
          ELSE TranslateLoop(nws, settings, outcomes, i + 1, used)

\* NewsStamp(parser.name, parser.mainpage, news[0].link, ts)
NewsStamp(name, page, link, stamp) ==
  [name |-> name, mainpage |-> page, link |-> link, ts |-> stamp]

\* the last post of the list is stamped instead of the first
StampsAfter_last(stmps, name, nws, stamp) ==
  IF nws # << >>
    THEN Append(stmps, NewsStamp(name, mainpage[name], nws[Len(nws)].link, stamp))
    ELSE stmps

\* `if news: stamps.append(NewsStamp(parser.name, parser.mainpage,
\* news[0].link, ts))'
StampsAfter(stmps, name, nws, stamp) ==
  IF nws # << >>
    THEN Append(stmps, NewsStamp(name, mainpage[name], nws[1].link, stamp))
    ELSE stmps

\* `parser.name in breakpoints': breakpoints is the set of URLs returned by
\* get_latest_post_urls(), and no parser name is a URL
NameInBreakpoints(name, urls) == FALSE

\* the API answer as translate of mailer.py sees it
OutcomeOf(answer) ==
  IF answer.transport = "error" THEN "error"
  ELSE IF answer.code = 200 THEN "200" ELSE "other"

\* the truth value of a Python tuple
Truthy(tuple) == Len(tuple) > 0

\* __exit__ returns a true value and swallows the exception
ExitSuppresses_true == TRUE

\* the value of SMTPMailer.__exit__: None, so an exception is not suppressed
ExitSuppresses == FALSE

\* the article elements of the pages a run downloads
RunArticles ==
  {[anchor |-> TRUE, href |-> 1, title |-> "text", date |-> "valid", body |-> TRUE],
   [anchor |-> TRUE, href |-> 2, title |-> "text", date |-> "absent", body |-> FALSE],
   [anchor |-> TRUE, href |-> 1, title |-> "empty", date |-> "valid", body |-> TRUE]}

\* a page with two posts, the newest first
TwoPostsPage ==
  << [anchor |-> TRUE, href |-> 2, title |-> "text", date |-> "absent", body |-> FALSE],
     [anchor |-> TRUE, href |-> 1, title |-> "text", date |-> "valid", body |-> TRUE] >>

\* what requests.get produces during a run
RunResponses ==
  FailedResponses
  \cup [transport : {"ok"}, status_code : {200}, content_type : {"text/html"},
        text : {EmptyHtml, [empty |-> FALSE, container |-> FALSE, articles |-> << >>]}]
  \cup [transport : {"ok"}, status_code : {200}, content_type : {"text/html"},
        text : [empty : {FALSE}, container : {TRUE},
                articles : SeqsUpTo(RunArticles, MaxRunArticles) \cup {TwoPostsPage}]]

\* the stores a run may start from
RunStores ==
  {EmptyStore}
  \cup {update_latest_post_urls(0, << [parser |-> p, link |-> 1] >>, EmptyStore) :
          p \in {AFG, PS}}

(***************************************************************************)
(* Idle values of the parts of the state a specification does not use.     *)
(***************************************************************************)
IdleStore ==
  /\ Source = {}
  /\ SiteSnapshot = EmptyBag
  /\ calls = 0
  /\ lastCall = [ts |-> 0, data |-> << >>, pre |-> EmptyStore]

NotEvaluated == [exc |-> "not evaluated", news |-> << >>]

NotCalled == << [parser |-> "not called", link |-> 0] >>

IdleFilter ==
  /\ fFeed = << >>
  /\ fPreds = << >>
  /\ fOut = << >>

IdleRun ==
  /\ SETTINGS = [translate_key |-> FALSE]
  /\ pc = "idle"
  /\ parserIdx = 0
  /\ runTs = 0
  /\ breakpoints = {}
  /\ newsfeed = << >>
  /\ translation_used = FALSE
  /\ stamps = << >>
  /\ server_connection = "none"
  /\ sessions = 0
  /\ mailtoCalls = 0
  /\ sendmail = "not called"
  /\ updateCalls = 0
  /\ pending = NoException
  /\ exc = NoException
  /\ store0 = EmptyStore

NotTranslated == [exc |-> "not called", none |-> TRUE, text |-> << >>, requests |-> 0]

LoopNotRun == [exc |-> "not run", news |-> << >>, used |-> FALSE]

IdleTranslate ==
  /\ tSettings = [translate_key |-> FALSE]
  /\ tText = << >>
  /\ tOutcome = [transport |-> "error", code |-> 0]
  /\ tResult = NotTranslated
  /\ tCaller = LoopNotRun

IdleSent ==
  /\ builtOn = EmptyStore
  /\ fAgain = << >>

IdleParser ==
  /\ pParser = AFG
  /\ pResp = [transport |-> "error", status_code |-> 0, content_type |-> "missing", text |-> EmptyHtml]
  /\ pResult = NotEvaluated

(***************************************************************************)
(* The store under a sequence of update_latest_post_urls calls.            *)
(***************************************************************************)
InitStore ==
  /\ \E st \in SeedStores :
       /\ Source = st.Source
       /\ SiteSnapshot = st.SiteSnapshot
  /\ calls = 0
  /\ lastCall = [ts |-> 0, data |-> << >>, pre |-> EmptyStore]
  /\ IdleParser
  /\ IdleFilter
  /\ IdleRun
  /\ IdleTranslate
  /\ IdleSent

\* one call update_latest_post_urls(ts, data), committed by its db_session
UpdateLatestPostUrls ==
  /\ calls < MaxCalls
  /\ \E data \in StoreData :
       LET ts == Now(calls)
           pre == [Source |-> Source, SiteSnapshot |-> SiteSnapshot]
           post == update_latest_post_urls(ts, data, pre)
       IN /\ Source' = post.Source
          /\ SiteSnapshot' = post.SiteSnapshot
          /\ lastCall' = [ts |-> ts, data |-> data, pre |-> pre]
  /\ calls' = calls + 1
  /\ UNCHANGED << parserVars, filterVars, runVars, translateVars, sentVars >>

NextStore == UpdateLatestPostUrls

SpecStore == InitStore /\ [][NextStore]_vars

(***************************************************************************)
(* One evaluation of the news property of one parser.                      *)
(***************************************************************************)
InitParser ==
  /\ pParser \in ParserNames
  /\ pResp \in Responses(MaxArticles)
  /\ pResult = NotEvaluated
  /\ IdleStore
  /\ IdleFilter
  /\ IdleRun
  /\ IdleTranslate
  /\ IdleSent

\* reading parser.news
ReadNews ==
  /\ pResult = NotEvaluated
  /\ pResult' = news(pParser, pResp)
  /\ UNCHANGED << pParser, pResp >>
  /\ UNCHANGED << storeVars, filterVars, runVars, translateVars, sentVars >>

NextParser == ReadNews

SpecParser == InitParser /\ [][NextParser]_vars

(***************************************************************************)
(* One call of filter_feed.                                                *)
(***************************************************************************)
InitFilter ==
  /\ fFeed \in SeqsUpTo(FeedPosts, MaxFeed)
  /\ fPreds \in SeqsUpTo(Predicates, MaxPreds)
  /\ fOut = NotCalled
  /\ IdleStore
  /\ IdleParser
  /\ IdleRun
  /\ IdleTranslate
  /\ IdleSent

\* filter_feed(newsfeed, *predicates)
FilterFeed ==
  /\ fOut = NotCalled
  /\ fOut' = filter_feed(fFeed, fPreds)
  /\ UNCHANGED << fFeed, fPreds >>
  /\ UNCHANGED << storeVars, parserVars, runVars, translateVars, sentVars >>

NextFilter == FilterFeed

SpecFilter == InitFilter /\ [][NextFilter]_vars

(***************************************************************************)
(* One run of the mailer script (mailer.py, __main__).                     *)
(***************************************************************************)
InitRun ==
  /\ \E st \in RunStores :
       /\ Source = st.Source
       /\ SiteSnapshot = st.SiteSnapshot
       /\ store0 = st
  /\ calls = 0
  /\ lastCall = [ts |-> 0, data |-> << >>, pre |-> EmptyStore]
  /\ SETTINGS \in [translate_key : BOOLEAN]
  /\ pc = "get_latest_news"
  /\ parserIdx = 0
  /\ runTs = 0
  /\ breakpoints = {}
  /\ newsfeed = << >>
  /\ translation_used = FALSE
  /\ stamps = << >>
  /\ server_connection = "none"
  /\ sessions = 0
  /\ mailtoCalls = 0
  /\ sendmail = "not called"
  /\ updateCalls = 0
  /\ pending = NoException
  /\ exc = NoException
  /\ IdleParser
  /\ IdleFilter
  /\ IdleTranslate
  /\ IdleSent

\* get_latest_news, up to the loop over PARSERS
GetLatestNews ==
  /\ pc = "get_latest_news"
  /\ breakpoints' = get_latest_post_urls(SiteSnapshot)
  /\ newsfeed' = << >>
  /\ stamps' = << >>
  /\ runTs' = Now(0)
  /\ translation_used' = FALSE
  /\ parserIdx' = 1
  /\ pc' = "for parser"
  /\ UNCHANGED << SETTINGS, server_connection, sessions, mailtoCalls, sendmail,
                  updateCalls, pending, exc, store0 >>
  /\ UNCHANGED << storeVars, parserVars, filterVars, translateVars, sentVars >>

\* one iteration of `for parser in PARSERS' of get_latest_news; after the
\* last one get_latest_news returns
ForParser ==
  /\ pc = "for parser"
  /\ \E resp \in RunResponses :
       LET parser == PARSERS[parserIdx]
           got == news(parser, resp)
       IN IF got.exc # NoException
            THEN /\ exc' = got.exc
                 /\ pc' = "failed"
                 /\ UNCHANGED << parserIdx, newsfeed, stamps, translation_used >>
          ELSE IF NameInBreakpoints(parser, breakpoints)
            THEN /\ exc' = "TypeError"
                 /\ pc' = "failed"
                 /\ UNCHANGED << parserIdx, newsfeed, stamps, translation_used >>
          ELSE
            \E outcomes \in [1..Len(got.news) -> ApiOutcomes] :
              LET tr == IF lang[parser] # "en"
                          THEN TranslateLoop(got.news, SETTINGS, outcomes, 1,
                                             translation_used)
                          ELSE [exc |-> NoException, news |-> got.news,
                                used |-> translation_used]
              IN IF tr.exc # NoException
                   THEN /\ exc' = tr.exc
                        /\ pc' = "failed"
                        /\ UNCHANGED << parserIdx, newsfeed, stamps, translation_used >>
                   ELSE /\ newsfeed' = newsfeed \o tr.news
                        /\ translation_used' = tr.used
                        /\ stamps' = StampsAfter(stamps, parser, tr.news, runTs)
                        /\ parserIdx' = parserIdx + 1
                        /\ pc' = IF parserIdx = Len(PARSERS) THEN "if newsfeed" ELSE "for parser"
                        /\ exc' = exc
  /\ UNCHANGED << SETTINGS, runTs, breakpoints, server_connection, sessions, mailtoCalls,
                  sendmail, updateCalls, pending, store0 >>
  /\ UNCHANGED << storeVars, parserVars, filterVars, translateVars, sentVars >>

\* `newsfeed, stamps = get_latest_news()' and `if newsfeed:': the name
\* newsfeed of the script is bound to the pair (newsfeed, translation_used)
IfNewsfeed ==
  /\ pc = "if newsfeed"
  /\ pc' = IF Truthy(<< newsfeed, translation_used >>) THEN "enter" ELSE "done"
  /\ UNCHANGED << SETTINGS, parserIdx, runTs, breakpoints, newsfeed, translation_used, stamps,
                  server_connection, sessions, mailtoCalls, sendmail, updateCalls,
                  pending, exc, store0 >>
  /\ UNCHANGED << storeVars, parserVars, filterVars, translateVars, sentVars >>

\* SMTPMailer.__enter__: SMTP_SSL(SERVER, PORT), then login
Enter ==
  /\ pc = "enter"
  /\ \E outcome \in {"connect fails", "login fails", "ok"} :
       CASE outcome = "connect fails" ->
              /\ exc' = "SMTPConnectError"
              /\ pc' = "failed"
              /\ UNCHANGED << server_connection, sessions >>
         [] outcome = "login fails" ->
              /\ server_connection' = "open"
              /\ sessions' = sessions + 1
              /\ exc' = "SMTPAuthenticationError"
              /\ pc' = "failed"
         [] outcome = "ok" ->
              /\ server_connection' = "open"
              /\ sessions' = sessions + 1
              /\ pc' = "mailto"
              /\ exc' = exc
  /\ UNCHANGED << SETTINGS, parserIdx, runTs, breakpoints, newsfeed, translation_used, stamps,
                  mailtoCalls, sendmail, updateCalls, pending, store0 >>
  /\ UNCHANGED << storeVars, parserVars, filterVars, translateVars, sentVars >>

\* mailer.mailto(newsfeed, SETTINGS["sendto"])
Mailto ==
  /\ pc = "mailto"
  /\ mailtoCalls' = mailtoCalls + 1
  /\ \E outcome \in {"failed", "ok"} :
       /\ sendmail' = outcome
       /\ pending' = IF outcome = "ok" THEN NoException ELSE "SMTPException"
  /\ pc' = "exit"
  /\ UNCHANGED << SETTINGS, parserIdx, runTs, breakpoints, newsfeed, translation_used, stamps,
                  server_connection, sessions, updateCalls, exc, store0 >>
  /\ UNCHANGED << storeVars, parserVars, filterVars, translateVars, sentVars >>

\* SMTPMailer.__exit__, and the end of the with statement
Exit ==
  /\ pc = "exit"
  /\ server_connection' = "closed"
  /\ IF pending # NoException /\ ~ExitSuppresses
       THEN /\ exc' = pending
            /\ pc' = "failed"
       ELSE /\ exc' = exc
            /\ pc' = "update"
  /\ pending' = NoException
  /\ UNCHANGED << SETTINGS, parserIdx, runTs, breakpoints, newsfeed, translation_used, stamps,
                  sessions, mailtoCalls, sendmail, updateCalls, store0 >>
  /\ UNCHANGED << storeVars, parserVars, filterVars, translateVars, sentVars >>

\* update_latest_post_urls(stamps): the call binds stamps to ts and leaves
\* the required parameter data unbound, so it raises before the body runs
Update ==
  /\ pc = "update"
  /\ updateCalls' = updateCalls + 1
  /\ exc' = "TypeError"
  /\ pc' = "failed"
  /\ UNCHANGED << SETTINGS, parserIdx, runTs, breakpoints, newsfeed, translation_used, stamps,
                  server_connection, sessions, mailtoCalls, sendmail, pending, store0 >>
  /\ UNCHANGED << storeVars, parserVars, filterVars, translateVars, sentVars >>

NextRun ==
  \/ GetLatestNews
  \/ ForParser
  \/ IfNewsfeed
  \/ Enter
  \/ Mailto
  \/ Exit
  \/ Update

SpecRun == InitRun /\ [][NextRun]_vars

(***************************************************************************)
(* One translation: Converters.translate, and the translation loop of      *)
(* get_latest_news on one post of a parser whose language is not English.  *)
(***************************************************************************)
InitTranslate ==
  /\ tSettings \in [translate_key : BOOLEAN]
  /\ tText \in SeqsUpTo({"src"}, MaxParagraphs)
  /\ tOutcome \in ApiAnswers
  /\ tResult = NotTranslated
  /\ tCaller = LoopNotRun
  /\ IdleStore
  /\ IdleParser
  /\ IdleFilter
  /\ IdleRun
  /\ IdleSent

\* Converters.translate(text, from_lang, to_lang)
CallConvertersTranslate ==
  /\ tResult = NotTranslated
  /\ tResult' = ConvertersTranslate(tText, tSettings, tOutcome)
  /\ UNCHANGED << tSettings, tText, tOutcome, tCaller >>
  /\ UNCHANGED << storeVars, parserVars, filterVars, runVars, sentVars >>

\* the loop `for n in news' of get_latest_news on a single post with text tText
TranslateNews ==
  /\ tCaller = LoopNotRun
  /\ tCaller' = TranslateLoop(<< News(PS, "text", "valid", 1, tText) >>, tSettings,
                              << OutcomeOf(tOutcome) >>, 1, FALSE)
  /\ UNCHANGED << tSettings, tText, tOutcome, tResult >>
  /\ UNCHANGED << storeVars, parserVars, filterVars, runVars, sentVars >>

NextTranslate ==
  \/ CallConvertersTranslate
  \/ TranslateNews

SpecTranslate == InitTranslate /\ [][NextTranslate]_vars

(***************************************************************************)
(* A SentBefore predicate: its construction, calls of                      *)
(* update_latest_post_urls made afterwards, and its application to a feed   *)
(* and to the feed it let through.                                          *)
(***************************************************************************)
InitSentBefore ==
  /\ \E st \in SeedStores :
       /\ Source = st.Source
       /\ SiteSnapshot = st.SiteSnapshot
  /\ calls = 0
  /\ lastCall = [ts |-> 0, data |-> << >>, pre |-> EmptyStore]
  /\ fFeed = << >>
  /\ fPreds = << >>
  /\ fOut = NotCalled
  /\ fAgain = NotCalled
  /\ builtOn = EmptyStore
  /\ IdleParser
  /\ IdleRun
  /\ IdleTranslate

\* SentBefore(): self.sent_before = get_latest_post_urls()
SentBeforeInit ==
  /\ fPreds = << >>
  /\ fPreds' = << SentBefore(get_latest_post_urls(SiteSnapshot)) >>
  /\ builtOn' = [Source |-> Source, SiteSnapshot |-> SiteSnapshot]
  /\ UNCHANGED << fFeed, fOut, fAgain >>
  /\ UNCHANGED << storeVars, parserVars, runVars, translateVars >>

\* update_latest_post_urls(ts, [post]) while the predicate exists
UpdateAfterInit ==
  /\ fPreds # << >>
  /\ calls < MaxCalls
  /\ \E post \in StorePosts :
       LET st == update_latest_post_urls(Now(calls), << post >>,
                                         [Source |-> Source, SiteSnapshot |-> SiteSnapshot])
       IN /\ Source' = st.Source
          /\ SiteSnapshot' = st.SiteSnapshot
  /\ calls' = calls + 1
  /\ UNCHANGED << lastCall, builtOn, fAgain >>
  /\ UNCHANGED << parserVars, filterVars, runVars, translateVars >>

\* filter_feed(newsfeed, sent_before)
FilterNewsfeed ==
  /\ fPreds # << >>
  /\ fOut = NotCalled
  /\ \E feed \in SeqsUpTo(FeedPosts, MaxFeed) :
       /\ fFeed' = feed
       /\ fOut' = filter_feed(feed, fPreds)
  /\ UNCHANGED << fPreds, builtOn, fAgain >>
  /\ UNCHANGED << storeVars, parserVars, runVars, translateVars >>

\* filter_feed(filtered, sent_before), filtered being the feed let through
FilterAgain ==
  /\ fOut # NotCalled
  /\ fAgain = NotCalled
  /\ fAgain' = filter_feed(fOut, fPreds)
  /\ UNCHANGED << fFeed, fPreds, fOut, builtOn >>
  /\ UNCHANGED << storeVars, parserVars, runVars, translateVars >>

NextSentBefore ==
  \/ SentBeforeInit
  \/ UpdateAfterInit
  \/ FilterNewsfeed
  \/ FilterAgain

SpecSentBefore == InitSentBefore /\ [][NextSentBefore]_vars

(***************************************************************************)
(* Properties of the snapshot store.                                       *)
(***************************************************************************)
\* the sources that have a post in data
SourcesIn(data) == {data[i].parser : i \in 1..Len(data)}

\* the positions of the posts of source s in data
PostsOf(data, s) == {i \in 1..Len(data) : data[i].parser = s}

\* the links of the posts of source s in data
LinksOf(data, s) == {data[i].link : i \in PostsOf(data, s)}

\* the rows of source s
RowsOf(rows, s) == [r \in {x \in DOMAIN rows : x.source.name = s} |-> rows[r]]

\* the part of get_latest_post_urls() contributed by source s
LatestUrlsOf(rows, s) == get_latest_post_urls(RowsOf(rows, s))

\* C1 as stated: after update_latest_post_urls(ts, data), get_latest_post_urls()
\* holds exactly one entry for each source of data, a link newly recorded for
\* it, and no URL recorded for that source before the call.
C1_ExactlyOneEntry ==
  calls > 0 =>
    \A s \in SourcesIn(lastCall.data) :
      LET new == LatestUrlsOf(SiteSnapshot, s)
          old == LatestUrlsOf(lastCall.pre.SiteSnapshot, s)
      IN /\ Cardinality(new) = 1
         /\ new \subseteq LinksOf(lastCall.data, s)
         /\ new \cap old = {}

\* C1 amended: after update_latest_post_urls(ts, data), the entries of
\* get_latest_post_urls() for a source of data are exactly the links of that
\* source's posts in data (one entry when they are one link), and a URL
\* recorded before for the source is absent unless it is one of those links.
C1_SnapshotReplaceExact ==
  calls > 0 =>
    \A s \in SourcesIn(lastCall.data) :
      LET new == LatestUrlsOf(SiteSnapshot, s)
          old == LatestUrlsOf(lastCall.pre.SiteSnapshot, s)
          links == LinksOf(lastCall.data, s)
      IN /\ new = links
         /\ (Cardinality(links) = 1 => Cardinality(new) = 1)
         /\ (old \ links) \cap get_latest_post_urls(RowsOf(SiteSnapshot, s)) = {}

\* a call replaced a recorded URL of a source by a different one
C1_Witness ==
  /\ calls > 0
  /\ \E s \in SourcesIn(lastCall.data) :
       /\ LatestUrlsOf(lastCall.pre.SiteSnapshot, s) # {}
       /\ LatestUrlsOf(lastCall.pre.SiteSnapshot, s) \cap LinksOf(lastCall.data, s) = {}
       /\ LatestUrlsOf(SiteSnapshot, s) # {}

\* the number of rows of source s with is_latest = true
LatestCount(rows, s) ==
  BagCardinality([r \in {x \in DOMAIN RowsOf(rows, s) : x.is_latest} |-> rows[r]])

\* C2 as stated: in every reachable state each Source has at most one
\* SiteSnapshot row with is_latest = true.
C2_AtMostOneLatest ==
  \A s \in StoreParsers : LatestCount(SiteSnapshot, s) <= 1

\* C2 amended: in every reachable state every SiteSnapshot row has
\* is_latest = true, the rows of one Source all carry one timestamp, and a
\* Source of the last call has as many latest rows as posts in that call's
\* data, which may be more than one.
C2_LatestRowsOfOneCall ==
  /\ \A r \in DOMAIN SiteSnapshot : r.is_latest
  /\ \A r1, r2 \in DOMAIN SiteSnapshot :
       r1.source = r2.source => r1.timestamp = r2.timestamp
  /\ calls > 0 =>
       \A s \in SourcesIn(lastCall.data) :
         LatestCount(SiteSnapshot, s) = Cardinality(PostsOf(lastCall.data, s))

\* a source holds two latest rows, written by a call that replaced older rows
C2_Witness ==
  /\ calls > 0
  /\ \E s \in SourcesIn(lastCall.data) :
       /\ LatestCount(SiteSnapshot, s) = 2
       /\ LatestCount(lastCall.pre.SiteSnapshot, s) > 0

\* C3: update_latest_post_urls(ts, data) leaves the rows of every source
\* that has no post in data as they were before the call.
C3_AbsentSourcesUntouched ==
  calls > 0 =>
    \A s \in StoreParsers \ SourcesIn(lastCall.data) :
      RowsOf(SiteSnapshot, s) = RowsOf(lastCall.pre.SiteSnapshot, s)

\* a call with posts ran while a source absent from its data had rows
C3_Witness ==
  /\ calls > 0
  /\ lastCall.data # << >>
  /\ \E s \in StoreParsers \ SourcesIn(lastCall.data) :
       /\ RowsOf(lastCall.pre.SiteSnapshot, s) # EmptyBag
       /\ RowsOf(SiteSnapshot, s) # EmptyBag

\* C4: after update_latest_post_urls(ts, data) the rows of a source of data
\* are exactly one row per post of that source in data, with that post's link
\* and timestamp ts, whatever rows it had before; the table holds Len(data)
\* rows plus the rows of the sources absent from data.
C4_OneRowPerPost ==
  calls > 0 =>
    LET data == lastCall.data
        absent == StoreParsers \ SourcesIn(data)
    IN /\ \A s \in SourcesIn(data) :
            /\ \A r \in DOMAIN RowsOf(SiteSnapshot, s) :
                 /\ r.timestamp = lastCall.ts
                 /\ r.url \in LinksOf(data, s)
                 /\ r.source = SourceRow(s, mainpage[s])
            /\ \A u \in StoreUrls :
                 CopiesIn([url |-> u, timestamp |-> lastCall.ts,
                           source |-> SourceRow(s, mainpage[s]), is_latest |-> TRUE],
                          SiteSnapshot)
                   = Cardinality({i \in PostsOf(data, s) : data[i].link = u})
       /\ BagCardinality(SiteSnapshot)
            = Len(data)
              + BagCardinality([r \in {x \in DOMAIN lastCall.pre.SiteSnapshot :
                                         x.source.name \in absent}
                                  |-> lastCall.pre.SiteSnapshot[r]])

\* a call with two posts of one source replaced the rows the source had,
\* while another source kept its rows
C4_Witness ==
  /\ calls > 0
  /\ \E s \in SourcesIn(lastCall.data) :
       /\ Cardinality(PostsOf(lastCall.data, s)) = 2
       /\ RowsOf(lastCall.pre.SiteSnapshot, s) # EmptyBag
       /\ \A r \in DOMAIN RowsOf(lastCall.pre.SiteSnapshot, s) :
            r.timestamp # lastCall.ts
  /\ BagCardinality(SiteSnapshot) > Len(lastCall.data)

(***************************************************************************)
(* Properties of the parsers.                                              *)
(***************************************************************************)
\* the page fetch failed: transport error, non-200 status, missing or
\* non-HTML content type
FetchFailed(resp) ==
  \/ resp.transport = "error"
  \/ resp.status_code # 200
  \/ resp.content_type # "text/html"

\* the page was fetched and has content, but not the structural container
ContainerAbsent(resp) ==
  ~FetchFailed(resp) /\ ~resp.text.empty /\ ~resp.text.container

\* the page was fetched and has the structural container
ContainerPresent(resp) ==
  ~FetchFailed(resp) /\ ~resp.text.empty /\ resp.text.container

\* C9: for every parser, if the page fetch fails or the structural container
\* is absent, the news property returns an empty post list and no exception
\* escapes the parser.
C9_FailedFetchYieldsNoPosts ==
  (pResult # NotEvaluated /\ (FetchFailed(pResp) \/ ContainerAbsent(pResp)))
    => (pResult.exc = NoException /\ pResult.news = << >>)

\* the article has a title and a link
HasTitleAndLink(a) == a.anchor /\ a.title # "empty" /\ a.href \in 1..NumLinks

\* the posts of the articles of a page that have a title and a link, in order
ArticlesWithTitleAndLink(p, articles) ==
  LET kept == SelectSeq(articles, HasTitleAndLink)
  IN [i \in 1..Len(kept) |->
        News(p, kept[i].title, ParsedDate(kept[i]), kept[i].href,
             to_paragraphs(kept[i].body))]

\* every date element of the page parses and every anchor has an href
WellFormed(articles) ==
  \A i \in 1..Len(articles) :
    articles[i].date # "malformed" /\ articles[i].href # NoHref

\* C10: for every parser and every page whose structural container is
\* present, to_news omits an article iff it lacks a title or a link; an
\* article with both is emitted whether or not it has a date or a body.
\* (Stated for the pages whose dates parse and whose anchors carry an href.)
C10_DroppedIffNoTitleOrLink ==
  (pResult # NotEvaluated /\ ContainerPresent(pResp) /\ WellFormed(pResp.text.articles))
    => /\ pResult.exc = NoException
       /\ pResult.news = ArticlesWithTitleAndLink(pParser, pResp.text.articles)

(***************************************************************************)
(* Properties of the predicate chain.                                      *)
(***************************************************************************)
\* the positions of the posts of fFeed that every predicate of fPreds admits
AdmittedPositions ==
  {n \in 1..Len(fFeed) : \A k \in 1..Len(fPreds) : Call(fPreds[k], fFeed[n])}

\* the k-th admitted position, in feed order
NthAdmitted(k) ==
  CHOOSE n \in AdmittedPositions :
    Cardinality({m \in AdmittedPositions : m < n}) = k - 1

\* C8: filter_feed(newsfeed, *predicates) returns exactly the posts of
\* newsfeed that every predicate admits, in their original relative order;
\* with no predicate it returns the whole feed, and a post that some predicate
\* rejects is absent from the output.
C8_FilterFeedIsConjunction ==
  fOut # NotCalled =>
    /\ Len(fOut) = Cardinality(AdmittedPositions)
    /\ \A k \in 1..Len(fOut) : fOut[k] = fFeed[NthAdmitted(k)]
    /\ (fPreds = << >> => fOut = fFeed)
    /\ \A n \in 1..Len(fFeed) :
         (\E k \in 1..Len(fPreds) : ~Call(fPreds[k], fFeed[n]))
           => \A m \in 1..Len(fOut) : fOut[m] # fFeed[n]

\* two predicates of different kinds each rejected a post that the other
\* admits, and a post survived
C8_Witness ==
  /\ fOut # NotCalled
  /\ Len(fPreds) = 2
  /\ fPreds[1].kind # fPreds[2].kind
  /\ \E n \in 1..Len(fFeed) : ~Call(fPreds[1], fFeed[n]) /\ Call(fPreds[2], fFeed[n])
  /\ Len(fOut) > 0
  /\ Len(fOut) < Len(fFeed)

(***************************************************************************)
(* Properties of a run of the mailer script.                               *)
(***************************************************************************)
\* the store as the run sees it now
Store == [Source |-> Source, SiteSnapshot |-> SiteSnapshot]

\* get_latest_news has returned and no source produced a post
CollectedNothing ==
  /\ pc \in {"if newsfeed", "enter", "mailto", "exit", "update", "done", "failed"}
  /\ parserIdx > Len(PARSERS)
  /\ newsfeed = << >>

\* C5: in a run whose collected newsfeed is empty no mail session is opened,
\* mailto is not called and update_latest_post_urls is not called, so the
\* store is unchanged.
C5_EmptyDigestNotSent ==
  CollectedNothing =>
    /\ sessions = 0
    /\ mailtoCalls = 0
    /\ updateCalls = 0
    /\ Store = store0

\* opening the mail session, logging in or sendmail has failed
SendFailed ==
  \/ exc \in {"SMTPConnectError", "SMTPAuthenticationError"}
  \/ sendmail = "failed"

\* C6: the store is updated only after the digest send completed: once
\* opening the session, logging in or sendmail has failed, the run never
\* reaches update_latest_post_urls, it ends with that failure, and the store
\* equals its state at the start of the run.
C6_NoUpdateAfterSendFailure ==
  /\ SendFailed =>
       /\ updateCalls = 0
       /\ pc \in {"exit", "failed"}
       /\ (pc = "failed" => exc \in {"SMTPConnectError", "SMTPAuthenticationError",
                                      "SMTPException"})
       /\ Store = store0
  /\ (pc = "update" \/ updateCalls > 0) => (sendmail = "ok" /\ mailtoCalls = 1)

\* a run with posts, on a store with rows, ended with the failure of sendmail
C6_Witness ==
  /\ pc = "failed"
  /\ sendmail = "failed"
  /\ exc = "SMTPException"
  /\ newsfeed # << >>
  /\ SiteSnapshot # EmptyBag

\* C7: every mail session SMTPMailer opens is released on every exit path,
\* a failure of the session setup included: no run ends with an opened,
\* unreleased SMTP connection.
C7_SessionAlwaysReleased ==
  pc \in {"done", "failed"} => server_connection # "open"

(***************************************************************************)
(* Properties of the stamps of a run.                                      *)
(***************************************************************************)
\* get_latest_news has returned its newsfeed and its stamps
Returned == parserIdx > Len(PARSERS)

\* the positions of the stamps of source s
StampsOf(s) == {i \in 1..Len(stamps) : stamps[i].name = s}

\* the first position of a non-empty set of positions
First(S) == CHOOSE i \in S : \A j \in S : i <= j

\* C12: when get_latest_news has returned, each source with at least one post
\* in the newsfeed has exactly one stamp, which carries the link of the first
\* post of that source, the page of the source and the time of the run; a
\* source without a post has no stamp, and its rows in the store are, up to
\* the end of the run, the ones recorded before the run.
C12_OneStampPerSourceWithPosts ==
  Returned =>
    \A s \in ParserNames :
      IF PostsOf(newsfeed, s) = {}
        THEN /\ StampsOf(s) = {}
             /\ RowsOf(SiteSnapshot, s) = RowsOf(store0.SiteSnapshot, s)
        ELSE /\ Cardinality(StampsOf(s)) = 1
             /\ \A i \in StampsOf(s) :
                  /\ stamps[i].link = newsfeed[First(PostsOf(newsfeed, s))].link
                  /\ stamps[i].mainpage = mainpage[s]
                  /\ stamps[i].ts = runTs

\* a run that got as far as the update: one source had two posts with
\* different links and was stamped, another one had no post and no stamp and
\* its snapshot recorded before the run is in the store
C12_Witness ==
  /\ Returned
  /\ updateCalls = 1
  /\ \E s \in ParserNames :
       /\ Cardinality(PostsOf(newsfeed, s)) = 2
       /\ Cardinality(LinksOf(newsfeed, s)) = 2
       /\ StampsOf(s) # {}
  /\ \E s \in ParserNames :
       /\ PostsOf(newsfeed, s) = {}
       /\ StampsOf(s) = {}
       /\ RowsOf(store0.SiteSnapshot, s) # << >>
       /\ RowsOf(SiteSnapshot, s) = RowsOf(store0.SiteSnapshot, s)

(***************************************************************************)
(* Properties of the translation.                                          *)
(***************************************************************************)
\* the API was reached and answered with a code
ApiAnswered == tOutcome.transport = "ok"

\* no translation can be had: the key is missing, or the API answered with a
\* code other than 200
TranslationUnavailable ==
  \/ ~tSettings.translate_key
  \/ (ApiAnswered /\ tOutcome.code # 200)

\* Converters.translate of postproc.py, which nothing calls, does what is
\* said of it: None without an API call when the key is missing, None on a
\* code other than 200, the translated list on code 200 only, no exception in
\* either failure case
ConvertersTranslateContract ==
  tResult # NotTranslated =>
    /\ ~tSettings.translate_key =>
         (tResult.exc = NoException /\ tResult.none /\ tResult.requests = 0)
    /\ (tSettings.translate_key /\ ApiAnswered /\ tOutcome.code # 200) =>
         (tResult.exc = NoException /\ tResult.none)
    /\ (tResult.exc = NoException /\ ~tResult.none)
         <=> (tSettings.translate_key /\ ApiAnswered /\ tOutcome.code = 200)
    /\ ~tResult.none => (Len(tResult.text) = Len(tText) /\ tResult.requests = 1)

\* the translation loop of get_latest_news ended without an exception and
\* left the text of the post as it was
CallerKeepsSourceText ==
  /\ tCaller.exc = NoException
  /\ ~tCaller.used
  /\ tCaller.news[1].text = tText

\* C11: in both failure cases of the translation, a missing "translate-key"
\* setting and an API answer with a code other than 200, translate does not
\* raise and returns no translation (without an API call when the key is
\* missing), the translated list is returned on code 200 only, and the caller
\* keeps the source-language text when no translation is returned.
C11_TranslationUnavailableFallsBack ==
  /\ ConvertersTranslateContract
  /\ (tCaller # LoopNotRun /\ TranslationUnavailable) => CallerKeepsSourceText
  /\ (tCaller # LoopNotRun /\ tCaller.exc = NoException) =>
       (tCaller.used <=> (tText # << >> /\ ApiAnswered /\ tOutcome.code = 200))

\* the API answered a text with a code other than 200: Converters.translate
\* returned None and the loop of get_latest_news kept the text
C11_FallbackOnCode ==
  /\ tSettings.translate_key
  /\ tText # << >>
  /\ ApiAnswered
  /\ tOutcome.code # 200
  /\ tResult # NotTranslated
  /\ tResult.none
  /\ tCaller # LoopNotRun
  /\ CallerKeepsSourceText

(***************************************************************************)
(* Properties of the SentBefore predicate.                                 *)
(***************************************************************************)
\* get_latest_post_urls() as it was when the predicate was constructed
UrlsAtConstruction == get_latest_post_urls(builtOn.SiteSnapshot)

\* the predicate lets the post through
NotSentBefore(post) == post.link \notin UrlsAtConstruction

\* C13: SentBefore holds the latest URLs of the store as they were when it
\* was constructed, whatever update_latest_post_urls did since; filter_feed
\* with it drops a post if and only if its link is among those URLs; and
\* filtering the filtered feed again drops nothing.
C13_SentBeforeIsPointInTime ==
  /\ fPreds # << >> => fPreds[1].sent_before = UrlsAtConstruction
  /\ fOut # NotCalled => fOut = SelectSeq(fFeed, NotSentBefore)
  /\ fAgain # NotCalled => fAgain = fOut

\* the store changed after the construction; of a feed, a post recorded at
\* the construction was dropped and a post recorded since was let through,
\* and filtering again returned the same feed
C13_Witness ==
  /\ fAgain # NotCalled
  /\ fAgain = fOut
  /\ get_latest_post_urls(SiteSnapshot) # UrlsAtConstruction
  /\ \E i \in 1..Len(fFeed) : fFeed[i].link \in UrlsAtConstruction
  /\ \E i \in 1..Len(fOut) :
       fOut[i].link \in get_latest_post_urls(SiteSnapshot) \ UrlsAtConstruction

====
